---- MODULE Spec2Model ----
(***************************************************************************)
(* Model of src/index.js: seven MCP tool handlers that forward a request   *)
(* to the Alpha Vantage HTTP API and format the JSON answer as text.       *)
(*                                                                         *)
(* JavaScript values are records [t, n, s]: t is the type tag, n the       *)
(* number (in thousandths, see Scale) and s the characters of a string or  *)
(* the elements of an array.  Strings are sequences of one-character       *)
(* strings so that parseFloat, toFixed, toUpperCase and substring are      *)
(* computed character by character.                                        *)
(***************************************************************************)
EXTENDS Integers, Sequences, FiniteSets, TLC

(* ------------------------------------------------------------------ *)
(* JavaScript values                                                   *)
(* ------------------------------------------------------------------ *)

\* Numbers are exact decimals counted in 1/Scale; the inputs of the model have
\* at most three fraction digits and never lie on a half-cent boundary, where
\* the binary representation of a double would decide the rounding.
Scale == 1000

Undef == [t |-> "undef", n |-> 0, s |-> <<>>]
NaN == [t |-> "nan", n |-> 0, s |-> <<>>]
Num(k) == [t |-> "num", n |-> k, s |-> <<>>]
Str(cs) == [t |-> "str", n |-> 0, s |-> cs]
Arr(items) == [t |-> "arr", n |-> 0, s |-> items]

\* A whole number as a JavaScript number.
Whole(k) == Num(k * Scale)

\* JavaScript truthiness (the operand of `!`): undefined, "", 0 and NaN are falsy;
\* arrays and objects, empty or not, are truthy.
Falsy(v) ==
    \/ v.t = "undef"
    \/ v.t = "nan"
    \/ (v.t = "str" /\ v.s = <<>>)
    \/ (v.t = "num" /\ v.n = 0)

\* isNaN(amount) for an argument that is a number or NaN; undefined converts to NaN.
IsNaN(v) == v.t # "num"

Digits == <<"0", "1", "2", "3", "4", "5", "6", "7", "8", "9">>
IsDigit(c) == \E d \in 1..10 : Digits[d] = c
DigitValue(c) == (CHOOSE d \in 1..10 : Digits[d] = c) - 1

Min(a, b) == IF a < b THEN a ELSE b

\* Length of the longest prefix of cs, from position i, made of digits.
RECURSIVE DigitRun(_, _)
DigitRun(cs, i) ==
    IF i <= Len(cs) /\ IsDigit(cs[i]) THEN 1 + DigitRun(cs, i + 1) ELSE 0

\* Value of the digits cs[i..j] read as a natural number.
RECURSIVE DigitsValue(_, _, _)
DigitsValue(cs, i, j) ==
    IF j < i THEN 0 ELSE 10 * DigitsValue(cs, i, j - 1) + DigitValue(cs[j])

\* Value, in 1/Scale, of the fraction digits cs[i..j] (digits past the third are
\* dropped: the inputs have none).
FractionValue(cs, i, j) ==
    LET d(k) == IF i + k <= j THEN DigitValue(cs[i + k]) ELSE 0
    IN  100 * d(0) + 10 * d(1) + d(2)

\* parseFloat: the longest prefix that is a decimal literal (sign, digits, ".",
\* digits); NaN when there is none.  parseFloat(undefined) is NaN.
ParseFloat(v) ==
    IF v.t = "num" THEN v
    ELSE IF v.t # "str" THEN NaN
    ELSE
      LET cs == v.s
          neg == Len(cs) >= 1 /\ cs[1] = "-"
          b == IF neg THEN 2 ELSE 1
          ni == DigitRun(cs, b)
          dot == b + ni <= Len(cs) /\ cs[b + ni] = "."
          nf == IF dot THEN DigitRun(cs, b + ni + 1) ELSE 0
          mag == Scale * DigitsValue(cs, b, b + ni - 1)
                   + FractionValue(cs, b + ni + 1, b + ni + nf)
      IN  IF ni + nf = 0 THEN NaN
          ELSE Num(IF neg THEN 0 - mag ELSE mag)

\* a * b of two numbers; exact because one factor of every product of the model
\* is a whole number.
Times(a, b) ==
    IF a.t # "num" \/ b.t # "num" THEN NaN ELSE Num((a.n * b.n) \div Scale)

\* a + b
Plus(a, b) ==
    IF a.t # "num" \/ b.t # "num" THEN NaN ELSE Num(a.n + b.n)

\* The decimal digits of a natural number.
RECURSIVE NatToChars(_)
NatToChars(k) ==
    IF k < 10 THEN <<Digits[k + 1]>>
    ELSE Append(NatToChars(k \div 10), Digits[(k % 10) + 1])

Abs(k) == IF k < 0 THEN 0 - k ELSE k

\* Hundredths nearest to a magnitude given in 1/Scale, the larger on a tie
\* (Number.prototype.toFixed, step "pick the larger n").
RoundHalfUp(m) == (m + 5) \div 10

\* A number rounded to two decimal places, as a number.
Rounded2(v) ==
    IF v.t # "num" THEN v
    ELSE Num((IF v.n < 0 THEN 0 - 1 ELSE 1) * 10 * RoundHalfUp(Abs(v.n)))

\* x.toFixed(2): "NaN" for NaN, else sign, integer part, ".", two digits.
ToFixed2(x) ==
    IF x.t # "num" THEN <<"N", "a", "N">>
    ELSE
      LET c == RoundHalfUp(Abs(x.n))
          sign == IF x.n < 0 THEN <<"-">> ELSE <<>>
      IN  sign \o NatToChars(c \div 100)
               \o <<".", Digits[((c \div 10) % 10) + 1], Digits[(c % 10) + 1]>>

UpperOf(c) ==
    CASE c = "a" -> "A" [] c = "b" -> "B" [] c = "d" -> "D" [] c = "e" -> "E"
      [] c = "f" -> "F" [] c = "l" -> "L" [] c = "m" -> "M" [] c = "p" -> "P"
      [] c = "r" -> "R" [] c = "s" -> "S" [] c = "t" -> "T" [] c = "u" -> "U"
      [] OTHER -> c

\* s.toUpperCase()
ToUpperCase(v) == Str([k \in 1..Len(v.s) |-> UpperOf(v.s[k])])

\* The number of items the news, dividend and intraday tools show.
TopN == 3

\* The number of characters of the description the overview shows.
DescriptionLimit == 300
Ellipsis == <<".", ".", ".">>

\* Faulty variant of SliceFirst: the last n elements, seq.slice(-n).
SliceLast(seq, n) == SubSeq(seq, Len(seq) - Min(n, Len(seq)) + 1, Len(seq))

\* seq.slice(0, n) and s.substring(0, n)
SliceFirst(seq, n) == SubSeq(seq, 1, Min(n, Len(seq)))


\* The object wrapper of a parsed JSON object: r is a record of its fields, or, for
\* the intraday time series, the sequence of its entries in the order of the text.
Obj(r) == [t |-> "obj", n |-> 0, s |-> <<r>>]
Fields(o) == o.s[1]

(* ------------------------------------------------------------------ *)
(* Tools, arguments and input schemas                                  *)
(* ------------------------------------------------------------------ *)

SymbolTools ==
    {"getStockPrice", "getStockNews", "getCompanyOverview", "getDividendHistory",
     "getIntraday"}
Tools == SymbolTools \cup {"convertCurrency", "calculatePortfolioValue"}

NoArgs ==
    [symbol |-> Undef, amount |-> Undef, from_currency |-> Undef,
     to_currency |-> Undef, holdings |-> Undef]

\* z.string(): a string, the empty one included.
IsString(v) == v.t = "str"
\* z.number(): a number; NaN is rejected.
IsNumber(v) == v.t = "num"
\* z.object({symbol: z.string(), shares: z.number()})
IsHolding(h) == IsString(h.symbol) /\ IsNumber(h.shares)

\* The input schema registered with each tool.
SchemaAccepts(tool, args) ==
    CASE tool \in SymbolTools -> IsString(args.symbol)
      [] tool = "convertCurrency" ->
            /\ IsNumber(args.amount)
            /\ IsString(args.from_currency)
            /\ IsString(args.to_currency)
      [] tool = "calculatePortfolioValue" ->
            /\ args.holdings.t = "arr"
            /\ \A k \in 1..Len(args.holdings.s) : IsHolding(args.holdings.s[k])

(* ------------------------------------------------------------------ *)
(* Results                                                             *)
(* ------------------------------------------------------------------ *)

NoResult == [status |-> "none", error |-> "", content |-> <<>>]
\* throw new Error(msg): the invocation ends in a failed tool result carrying msg.
Throw(msg) == [status |-> "error", error |-> msg, content |-> <<>>]
\* return { content: [{ type: "text", text }] }
Return(text) ==
    [status |-> "ok", error |-> "", content |-> <<[type |-> "text", text |-> text]>>]

\* The host library's answer to arguments its schema validation rejects; the
\* handler is not called.
InvalidArguments == Throw("Invalid arguments for tool")

\* Errors the runtime raises, not the handlers' own messages.
FetchError == "FetchError: request failed"
JsonError == "FetchError: invalid json response body"
TypeError == "TypeError: Cannot read properties of undefined (reading 'substring')"

(* ------------------------------------------------------------------ *)
(* Upstream responses                                                  *)
(* ------------------------------------------------------------------ *)

\* kind: "reject" (fetch rejects: network failure), "status" (a response with
\* res.ok false), "badjson" (res.ok, res.json() rejects), "json" (res.ok, parsed).
NoData ==
    [quote |-> Undef, feed |-> Undef, Name |-> Undef, Sector |-> Undef,
     Industry |-> Undef, Description |-> Undef, historical |-> Undef,
     series |-> Undef, rateInfo |-> Undef]
Rejected == [kind |-> "reject", data |-> NoData]
NotOk == [kind |-> "status", data |-> NoData]
BadJson == [kind |-> "badjson", data |-> NoData]
Json(d) == [kind |-> "json", data |-> d]

\* How `await fetch(...)`, `if (!res.ok) throw` and `await res.json()` end for a
\* handler that throws on a failed request: the error, or "" when data is parsed.
FetchFailure(resp, failedMsg) ==
    CASE resp.kind = "reject" -> FetchError
      [] resp.kind = "status" -> failedMsg
      [] resp.kind = "badjson" -> JsonError
      [] OTHER -> ""

(* ------------------------------------------------------------------ *)
(* Inputs: arguments of the calls and responses of the provider        *)
(* ------------------------------------------------------------------ *)

\* Longest holdings list of a call, one invocation at a time.
MaxHoldings == 3
\* Longest holdings list of a call, invocations in flight together.
MaxConcurrentHoldings == 2
\* Longest feed, dividend history and time series of a response.
MaxItems == 10
\* Longest company description of a response.
MaxDescription == 500

SeqsUpTo(S, n) == UNION {[1..k -> S] : k \in 0..n}

aapl == Str(<<"a", "a", "p", "l">>)
msft == Str(<<"m", "s", "f", "t">>)
usd == Str(<<"u", "s", "d">>)
eur == Str(<<"e", "u", "r">>)
Empty == Str(<<>>)
Holding(symbol, shares) == [symbol |-> symbol, shares |-> shares]

\* rich: the inputs of one invocation at a time; otherwise the smaller set used
\* for invocations in flight together.
HoldingsOf(rich) ==
    IF rich
    THEN {Undef} \cup
         {Arr(hs) : hs \in SeqsUpTo({Holding(aapl, Whole(3)), Holding(msft, Whole(1)),
                                     Holding(aapl, Whole(0)), Holding(Empty, Whole(2)),
                                     Holding(msft, Undef)}, MaxHoldings)}
    ELSE {Arr(hs) : hs \in SeqsUpTo({Holding(aapl, Whole(3)), Holding(msft, Whole(1))},
                                    MaxConcurrentHoldings)}

ArgsOf(tool, rich) ==
    CASE tool \in SymbolTools ->
            {[NoArgs EXCEPT !.symbol = v] :
                v \in IF rich THEN {Undef, Empty, aapl} ELSE {aapl}}
      [] tool = "convertCurrency" ->
            {[NoArgs EXCEPT !.amount = a, !.from_currency = f, !.to_currency = c] :
                a \in IF rich
                      THEN {Undef, NaN, Str(<<"a", "b", "c">>), Whole(0), Whole(0 - 5),
                            Whole(100)}
                      ELSE {Whole(0), Whole(100)},
                f \in IF rich THEN {Undef, Empty, usd} ELSE {usd},
                c \in IF rich THEN {Undef, Empty, eur} ELSE {eur}}
      [] tool = "calculatePortfolioValue" ->
            {[NoArgs EXCEPT !.holdings = h] : h \in HoldingsOf(rich)}

Quote(price) ==
    Json([NoData EXCEPT !.quote =
            Obj([price |-> price, change |-> Str(<<"0", ".", "5">>),
                 percent |-> Str(<<"0", ".", "4", "%">>)])])
NoQuote == Json(NoData)
Price1234 == Str(<<"1", "2", "3", ".", "4">>)
Price1004 == Str(<<"1", ".", "0", "0", "4">>)

QuoteResponses(rich) ==
    IF rich
    THEN {Rejected, NotOk, BadJson, NoQuote, Quote(Undef), Quote(Empty),
          Quote(Price1234), Quote(Price1004), Quote(Str(<<"a", "b", "c">>))}
    ELSE {Rejected, NotOk, Quote(Price1234), Quote(Price1004)}

\* Provider lists of n items in one of two orders; item k has the identity k.
Position(n, ascending, k) == IF ascending THEN k ELSE n + 1 - k
Label(c, k) == Str(<<c>> \o NatToChars(k))
FeedItem(k) == [title |-> Label("t", k), url |-> Label("u", k)]
Dividend(k) == [date |-> Label("d", k), dividend |-> Num(k * 10)]
SeriesEntry(k) == [time |-> Label("T", k), open |-> Num(k), close |-> Num(k + 1)]
FeedList(n, up) == [k \in 1..n |-> FeedItem(Position(n, up, k))]
DividendList(n, up) == [k \in 1..n |-> Dividend(Position(n, up, k))]
SeriesList(n, up) == [k \in 1..n |-> SeriesEntry(Position(n, up, k))]

ListLengths(rich) == IF rich THEN 0..MaxItems ELSE {0, 1}

\* A description of n characters, each position with its own digit.
Text(n) == [k \in 1..n |-> Digits[(k % 10) + 1]]
DescriptionLengths ==
    {0, 1, DescriptionLimit - 1, DescriptionLimit, DescriptionLimit + 1, MaxDescription}
acme == Str(<<"A", "c", "m", "e">>)

ResponsesOf(tool, rich) ==
    CASE tool \in {"getStockPrice", "calculatePortfolioValue"} -> QuoteResponses(rich)
      [] tool = "getStockNews" ->
            {Rejected, NotOk, BadJson, Json(NoData)} \cup
            {Json([NoData EXCEPT !.feed = Arr(FeedList(n, up))]) :
                n \in ListLengths(rich), up \in BOOLEAN}
      [] tool = "getDividendHistory" ->
            {Rejected, NotOk, BadJson, Json(NoData)} \cup
            {Json([NoData EXCEPT !.historical = Arr(DividendList(n, up))]) :
                n \in ListLengths(rich), up \in BOOLEAN}
      [] tool = "getIntraday" ->
            {Rejected, NotOk, BadJson, Json(NoData)} \cup
            {Json([NoData EXCEPT !.series = Obj(SeriesList(n, up))]) :
                n \in ListLengths(rich), up \in BOOLEAN}
      [] tool = "getCompanyOverview" ->
            {Rejected, NotOk, BadJson} \cup
            {Json([NoData EXCEPT !.Name = name, !.Sector = sector,
                                 !.Industry = Str(<<"I">>), !.Description = d]) :
                name \in IF rich THEN {Undef, Empty, acme} ELSE {Undef, acme},
                sector \in IF rich THEN {Undef, Str(<<"S">>)} ELSE {Str(<<"S">>)},
                d \in IF rich
                      THEN {Undef} \cup {Str(Text(n)) : n \in DescriptionLengths}
                      ELSE {Str(Text(1))}}
      [] tool = "convertCurrency" ->
            {Rejected, NotOk, BadJson, Json(NoData)} \cup
            {Json([NoData EXCEPT !.rateInfo =
                     Obj([rate |-> rate, refreshed |-> Str(<<"n", "o", "w">>)])]) :
                rate \in IF rich THEN {Undef, Str(<<"0", ".", "9", "2", "5">>)}
                         ELSE {Str(<<"0", ".", "9", "2", "5">>)}}

(* ------------------------------------------------------------------ *)
(* State                                                               *)
(* ------------------------------------------------------------------ *)

VARIABLES
    apiKey,   \* process.env.ALPHA_VANTAGE_API_KEY: undefined or a string
    task,     \* per invocation: position, arguments, locals, result
    net       \* the HTTP GETs issued and not yet answered

vars == <<apiKey, task, net>>

\* The invocations the host may have in flight together.
Tasks == {"t1", "t2"}

\* pc: "idle" (not invoked), "called" (arguments validated, handler not yet run),
\* "fetch" (suspended at `await fetch`), "done".  totalValue and details are the
\* locals of calculatePortfolioValue.  gets and log record, for the properties,
\* the GETs the invocation issued (the holding's index, 0 for the other tools)
\* and the responses it received.
IdleTask ==
    [pc |-> "idle", tool |-> "", args |-> NoArgs, totalValue |-> Num(0),
     details |-> <<>>, gets |-> <<>>, log |-> <<>>, result |-> NoResult]

\* A GET of the provider's `function` fn with the query parameters q.
Request(t, fn, q, idx) == [task |-> t, fn |-> fn, q |-> q, idx |-> idx]

Pending(t) == {r \in net : r.task = t}

\* The handler throws or returns: the invocation is over.
Finish(t, result) ==
    task' = [task EXCEPT ![t].pc = "done", ![t].result = result]

\* The handler reaches `await fetch(url)`.
Suspend(t, r) ==
    /\ task' = [task EXCEPT ![t].pc = "fetch",
                            ![t].gets = Append(task[t].gets, r.idx)]
    /\ net' = net \cup {r}

\* The response to r is handed to the handler that awaits it.
Receive(t, r, resp) ==
    /\ task[t].pc = "fetch"
    /\ r \in Pending(t)
    /\ net' = net \ {r}

Logged(t, r, resp) == Append(task[t].log, [idx |-> r.idx, resp |-> resp])

(* ------------------------------------------------------------------ *)
(* Dispatch                                                            *)
(* ------------------------------------------------------------------ *)

\* server.registerTool(name, {inputSchema}, handler): a call of the tool with
\* arguments the schema rejects is answered without running the handler.
CallTool(t, tool, args) ==
    /\ task[t].pc = "idle"
    /\ task' = [task EXCEPT ![t] =
                  IF SchemaAccepts(tool, args)
                  THEN [IdleTask EXCEPT !.pc = "called", !.tool = tool, !.args = args]
                  ELSE [IdleTask EXCEPT !.pc = "done", !.tool = tool, !.args = args,
                                        !.result = InvalidArguments]]
    /\ UNCHANGED <<apiKey, net>>

Called(t, tool) == task[t].pc = "called" /\ task[t].tool = tool

(* ------------------------------------------------------------------ *)
(* The five handlers of a ticker symbol                                *)
(* ------------------------------------------------------------------ *)

MissingKeyLong == "Error: Missing ALPHA_VANTAGE_API_KEY environment variable."
MissingKeyShort == "API key not set."

\* Faulty variant of StartSymbolTool: the GET is issued without the key check.
StartSymbolToolUnchecked(t, missingMsg, fn) ==
    /\ Suspend(t, Request(t, fn, <<task[t].args.symbol>>, 0))
    /\ UNCHANGED apiKey

\* Lines 20-23 and their copies: the key check, then the GET.
StartSymbolTool(t, missingMsg, fn) ==
    IF Falsy(apiKey)
    THEN Finish(t, Throw(missingMsg)) /\ UNCHANGED <<apiKey, net>>
    ELSE /\ Suspend(t, Request(t, fn, <<task[t].args.symbol>>, 0))
         /\ UNCHANGED apiKey

\* The handler's continuation ends the invocation with result.
Resume(t, r, resp, result) ==
    /\ Receive(t, r, resp)
    /\ task' = [task EXCEPT ![t].pc = "done", ![t].result = result,
                            ![t].log = Logged(t, r, resp)]
    /\ UNCHANGED apiKey

getStockPrice(t) ==
    /\ Called(t, "getStockPrice")
    /\ StartSymbolTool(t, MissingKeyLong, "GLOBAL_QUOTE")

\* Faulty variant of QuoteMissing: only the quote object is looked for.
QuoteObjectMissing(data) == Falsy(data.quote)

\* if (!quote || !quote["05. price"])
QuoteMissing(data) ==
    Falsy(data.quote) \/ Falsy(Fields(data.quote).price)

getStockPriceResult(symbol, resp) ==
    LET failure == FetchFailure(resp, "Failed to get stock price for symbol")
        quote == Fields(resp.data.quote)
    IN  IF failure # "" THEN Throw(failure)
        ELSE IF QuoteMissing(resp.data) THEN Throw("No price data found for symbol")
        ELSE Return([kind |-> "price", symbol |-> ToUpperCase(symbol),
                     price |-> quote.price, change |-> quote.change,
                     percent |-> quote.percent])

getStockPriceResume(t, rich) ==
    /\ task[t].tool = "getStockPrice"
    /\ \E r \in Pending(t) : \E resp \in ResponsesOf("getStockPrice", rich) :
          Resume(t, r, resp, getStockPriceResult(task[t].args.symbol, resp))

getStockNews(t) ==
    /\ Called(t, "getStockNews")
    /\ StartSymbolTool(t, MissingKeyLong, "NEWS_SENTIMENT")

\* Faulty variant of FeedEmpty: an empty feed counts as news.
FeedAbsent(data) == Falsy(data.feed)

\* if (!data.feed || data.feed.length === 0)
FeedEmpty(data) == Falsy(data.feed) \/ Len(data.feed.s) = 0

getStockNewsResult(symbol, resp) ==
    LET failure == FetchFailure(resp, "Failed to get news for symbol")
        top == SliceFirst(resp.data.feed.s, TopN)
    IN  IF failure # "" THEN Throw(failure)
        ELSE IF FeedEmpty(resp.data)
        THEN Return([kind |-> "info", symbol |-> symbol, items |-> <<>>])
        ELSE Return([kind |-> "news", symbol |-> ToUpperCase(symbol),
                     items |-> [k \in 1..Len(top) |->
                                  [index |-> k, title |-> top[k].title,
                                   url |-> top[k].url]]])

getStockNewsResume(t, rich) ==
    /\ task[t].tool = "getStockNews"
    /\ \E r \in Pending(t) : \E resp \in ResponsesOf("getStockNews", rich) :
          Resume(t, r, resp, getStockNewsResult(task[t].args.symbol, resp))

getCompanyOverview(t) ==
    /\ Called(t, "getCompanyOverview")
    /\ StartSymbolTool(t, MissingKeyShort, "OVERVIEW")

\* data.Description.substring(0, 300): a TypeError when Description is absent.
getCompanyOverviewResult(symbol, resp) ==
    LET failure == FetchFailure(resp, "Failed to get company overview for symbol")
        data == resp.data
    IN  IF failure # "" THEN Throw(failure)
        ELSE IF Falsy(data.Name) THEN Throw("No overview data found for symbol")
        ELSE IF data.Description.t # "str" THEN Throw(TypeError)
        ELSE Return([kind |-> "overview", Name |-> data.Name, Sector |-> data.Sector,
                     Industry |-> data.Industry,
                     Description |->
                        SliceFirst(data.Description.s, DescriptionLimit) \o Ellipsis])

getCompanyOverviewResume(t, rich) ==
    /\ task[t].tool = "getCompanyOverview"
    /\ \E r \in Pending(t) : \E resp \in ResponsesOf("getCompanyOverview", rich) :
          Resume(t, r, resp, getCompanyOverviewResult(task[t].args.symbol, resp))

getDividendHistory(t) ==
    /\ Called(t, "getDividendHistory")
    /\ StartSymbolTool(t, MissingKeyShort, "DIVIDEND_HISTORY")

\* if (!data["historical"] || data["historical"].length === 0)
HistoricalEmpty(data) == Falsy(data.historical) \/ Len(data.historical.s) = 0

getDividendHistoryResult(symbol, resp) ==
    LET failure == FetchFailure(resp, "Failed to get dividend history for symbol")
        recentDividends == SliceFirst(resp.data.historical.s, TopN)
    IN  IF failure # "" THEN Throw(failure)
        ELSE IF HistoricalEmpty(resp.data)
        THEN Return([kind |-> "info", symbol |-> symbol, items |-> <<>>])
        ELSE Return([kind |-> "dividends", symbol |-> ToUpperCase(symbol),
                     items |-> [k \in 1..Len(recentDividends) |->
                                  [date |-> recentDividends[k].date,
                                   dividend |-> recentDividends[k].dividend]]])

getDividendHistoryResume(t, rich) ==
    /\ task[t].tool = "getDividendHistory"
    /\ \E r \in Pending(t) : \E resp \in ResponsesOf("getDividendHistory", rich) :
          Resume(t, r, resp, getDividendHistoryResult(task[t].args.symbol, resp))

getIntraday(t) ==
    /\ Called(t, "getIntraday")
    /\ StartSymbolTool(t, MissingKeyShort, "TIME_SERIES_INTRADAY")

\* Object.keys(series): the keys in the order of the JSON text (timestamps are no
\* array indices, which alone would be moved to the front).
ObjectKeys(series) ==
    [k \in 1..Len(Fields(series)) |-> Fields(series)[k].time]

\* series[time]
Point(series, time) ==
    LET k == CHOOSE j \in 1..Len(Fields(series)) : Fields(series)[j].time = time
    IN  Fields(series)[k]

getIntradayResult(symbol, resp) ==
    LET failure == FetchFailure(resp, "Failed to get intraday data for symbol")
        series == resp.data.series
        times == SliceFirst(ObjectKeys(series), TopN)
    IN  IF failure # "" THEN Throw(failure)
        ELSE IF Falsy(series) THEN Throw("No intraday data found for symbol")
        ELSE Return([kind |-> "intraday", symbol |-> ToUpperCase(symbol),
                     items |-> [k \in 1..Len(times) |->
                                  [time |-> times[k],
                                   open |-> Point(series, times[k]).open,
                                   close |-> Point(series, times[k]).close]]])

getIntradayResume(t, rich) ==
    /\ task[t].tool = "getIntraday"
    /\ \E r \in Pending(t) : \E resp \in ResponsesOf("getIntraday", rich) :
          Resume(t, r, resp, getIntradayResult(task[t].args.symbol, resp))

(* ------------------------------------------------------------------ *)
(* convertCurrency                                                     *)
(* ------------------------------------------------------------------ *)

\* if (!amount || isNaN(amount))
AmountRejected(amount) == Falsy(amount) \/ IsNaN(amount)

\* if (!from_currency || !to_currency)
CurrencyRejected(from, to) == Falsy(from) \/ Falsy(to)

convertCurrency(t) ==
    LET a == task[t].args IN
    /\ Called(t, "convertCurrency")
    /\ IF AmountRejected(a.amount)
       THEN Finish(t, Throw("Amount must be a number")) /\ UNCHANGED <<apiKey, net>>
       ELSE IF CurrencyRejected(a.from_currency, a.to_currency)
       THEN /\ Finish(t, Throw("from_currency and to_currency are required"))
            /\ UNCHANGED <<apiKey, net>>
       ELSE IF Falsy(apiKey)
       THEN Finish(t, Throw(MissingKeyShort)) /\ UNCHANGED <<apiKey, net>>
       ELSE /\ Suspend(t, Request(t, "CURRENCY_EXCHANGE_RATE",
                                  <<a.from_currency, a.to_currency>>, 0))
            /\ UNCHANGED apiKey

convertCurrencyResult(a, resp) ==
    LET failure == FetchFailure(resp, "Failed to get exchange rate")
        rateInfo == resp.data.rateInfo
        rate == ParseFloat(Fields(rateInfo).rate)
    IN  IF failure # "" THEN Throw(failure)
        ELSE IF Falsy(rateInfo) THEN Throw("No exchange rate data found")
        ELSE Return([kind |-> "conversion", amount |-> a.amount,
                     from |-> ToUpperCase(a.from_currency),
                     converted |-> ToFixed2(Times(a.amount, rate)),
                     to |-> ToUpperCase(a.to_currency), rate |-> rate,
                     refreshed |-> Fields(rateInfo).refreshed])

convertCurrencyResume(t, rich) ==
    /\ task[t].tool = "convertCurrency"
    /\ \E r \in Pending(t) : \E resp \in ResponsesOf("convertCurrency", rich) :
          Resume(t, r, resp, convertCurrencyResult(task[t].args, resp))

(* ------------------------------------------------------------------ *)
(* calculatePortfolioValue                                             *)
(* ------------------------------------------------------------------ *)

\* if (!symbol || !shares) continue;
HoldingSkipped(h) == Falsy(h.symbol) \/ Falsy(h.shares)

\* The first holding at or after position i that the loop does not skip before
\* its fetch; Len(holdings) + 1 when there is none.
RECURSIVE NextFetch(_, _)
NextFetch(holdings, i) ==
    IF i > Len(holdings) THEN i
    ELSE IF HoldingSkipped(holdings[i]) THEN NextFetch(holdings, i + 1)
    ELSE i

\* Faulty variant of FetchBatch: the GETs of all remaining holdings are issued
\* together, as with Promise.all.
FetchAllRemaining(holdings, i) ==
    {j \in i..Len(holdings) : ~HoldingSkipped(holdings[j])}

\* The holdings whose GET the loop issues when it runs on from position i: the
\* one `await fetch` it reaches next, none when the loop ends.
FetchBatch(holdings, i) ==
    IF NextFetch(holdings, i) > Len(holdings) THEN {} ELSE {NextFetch(holdings, i)}

\* The elements of a set of numbers, ascending.
RECURSIVE SortedSeq(_)
SortedSeq(S) ==
    IF S = {} THEN <<>>
    ELSE LET m == CHOOSE a \in S : \A b \in S : a <= b
         IN  <<m>> \o SortedSeq(S \ {m})

\* const value = price * shares;
HoldingValue(price, shares) == Times(price, shares)

\* `${shares} shares of ${symbol.toUpperCase()} at $${price.toFixed(2)} = $${value.toFixed(2)}`
DetailLine(h, price, value) ==
    [shares |-> h.shares, symbol |-> ToUpperCase(h.symbol),
     price |-> ToFixed2(price), value |-> ToFixed2(value)]

\* Faulty variant of AddToTotal: the value is rounded before it is added.
AddRoundedToTotal(totalValue, value) == Plus(totalValue, Rounded2(value))

\* totalValue += value;
AddToTotal(totalValue, value) == Plus(totalValue, value)

\* Faulty variant of RunningTotal: one accumulator at module level, read by every
\* invocation.
SharedTotal(t) == task[CHOOSE u \in Tasks : TRUE].totalValue

\* The local `let totalValue` of the invocation.
RunningTotal(t) == task[t].totalValue

PortfolioText(details, totalValue) ==
    [kind |-> "portfolio", details |-> details, total |-> ToFixed2(totalValue)]

\* The for loop run on from position i, up to its next `await fetch` or its end.
LoopFrom(t, i, totalValue, details, log, others) ==
    LET holdings == task[t].args.holdings.s
        batch == FetchBatch(holdings, i)
        cur == [task[t] EXCEPT !.totalValue = totalValue, !.details = details,
                               !.log = log]
    IN  IF batch = {}
        THEN /\ task' = [task EXCEPT ![t] =
                           [cur EXCEPT !.pc = "done",
                                       !.result = Return(PortfolioText(details, totalValue))]]
             /\ net' = others
        ELSE /\ task' = [task EXCEPT ![t] =
                           [cur EXCEPT !.pc = "fetch",
                                       !.gets = cur.gets \o SortedSeq(batch)]]
             /\ net' = others \cup
                   {Request(t, "GLOBAL_QUOTE", <<holdings[j].symbol>>, j) : j \in batch}

calculatePortfolioValue(t) ==
    LET holdings == task[t].args.holdings IN
    /\ Called(t, "calculatePortfolioValue")
    /\ UNCHANGED apiKey
    /\ IF Falsy(apiKey)
       THEN Finish(t, Throw(MissingKeyShort)) /\ UNCHANGED net
       ELSE IF holdings.t # "arr" \/ Len(holdings.s) = 0
       THEN Finish(t, Throw("holdings must be a non-empty array")) /\ UNCHANGED net
       ELSE LoopFrom(t, 1, Num(0), <<>>, <<>>, net)

\* One iteration from the answer to its fetch on, then the loop up to the next
\* fetch.  `await fetch` and `await res.json()` are inside no try block: a
\* rejection of either ends the invocation.
PortfolioIteration(t, r, resp) ==
    LET h == task[t].args.holdings.s[r.idx]
        log == Logged(t, r, resp)
        others == net \ {r}
        price == ParseFloat(Fields(resp.data.quote).price)
        value == HoldingValue(price, h.shares)
    IN  /\ UNCHANGED apiKey
        /\ IF resp.kind \in {"reject", "badjson"}
           THEN /\ task' = [task EXCEPT ![t].pc = "done", ![t].log = log,
                              ![t].result = Throw(FetchFailure(resp, ""))]
                /\ net' = others
           ELSE IF resp.kind = "status" \/ QuoteMissing(resp.data)
           THEN LoopFrom(t, r.idx + 1, RunningTotal(t), task[t].details, log, others)
           ELSE LoopFrom(t, r.idx + 1, AddToTotal(RunningTotal(t), value),
                         Append(task[t].details, DetailLine(h, price, value)),
                         log, others)

calculatePortfolioValueResume(t, rich) ==
    /\ task[t].tool = "calculatePortfolioValue"
    /\ task[t].pc = "fetch"
    /\ \E r \in Pending(t) : \E resp \in ResponsesOf("calculatePortfolioValue", rich) :
          PortfolioIteration(t, r, resp)

(* ------------------------------------------------------------------ *)
(* Specifications                                                      *)
(* ------------------------------------------------------------------ *)

Init ==
    /\ apiKey \in {Undef, Empty, Str(<<"d", "e", "m", "o">>)}
    /\ task = [t \in Tasks |-> IdleTask]
    /\ net = {}

\* The steps of invocation t.
Step(t, rich) ==
    \/ \E tool \in Tools : \E args \in ArgsOf(tool, rich) : CallTool(t, tool, args)
    \/ getStockPrice(t)
    \/ getStockNews(t)
    \/ getCompanyOverview(t)
    \/ getDividendHistory(t)
    \/ getIntraday(t)
    \/ convertCurrency(t)
    \/ calculatePortfolioValue(t)
    \/ getStockPriceResume(t, rich)
    \/ getStockNewsResume(t, rich)
    \/ getCompanyOverviewResume(t, rich)
    \/ getDividendHistoryResume(t, rich)
    \/ getIntradayResume(t, rich)
    \/ convertCurrencyResume(t, rich)
    \/ calculatePortfolioValueResume(t, rich)

\* One invocation, every input of the model.  What holds of one invocation holds
\* of each of several in flight together, which share nothing (C6, checked under
\* SpecConcurrent).
Next == Step("t1", TRUE)
Spec == Init /\ [][Next]_vars

\* Invocations in flight together, interleaved at their suspension points.
NextConcurrent == \E t \in Tasks : Step(t, FALSE)
SpecConcurrent == Init /\ [][NextConcurrent]_vars

(* ------------------------------------------------------------------ *)
(* Vocabulary of the properties                                        *)
(* ------------------------------------------------------------------ *)

\* The error kind of a failed result, from its message.
ErrorClass(msg) ==
    CASE msg \in {MissingKeyLong, MissingKeyShort} -> "MissingCredential"
      [] msg \in {"Amount must be a number",
                  "from_currency and to_currency are required",
                  "holdings must be a non-empty array",
                  "Invalid arguments for tool"} -> "InvalidInput"
      [] msg \in {"Failed to get stock price for symbol", "Failed to get news for symbol",
                  "Failed to get company overview for symbol",
                  "Failed to get dividend history for symbol",
                  "Failed to get intraday data for symbol",
                  "Failed to get exchange rate", FetchError} -> "UpstreamRequestFailed"
      [] msg \in {"No price data found for symbol", "No overview data found for symbol",
                  "No intraday data found for symbol",
                  "No exchange rate data found"} -> "NoDataFound"
      [] OTHER -> "Unclassified"

Done(t) == task[t].pc = "done"
Succeeded(t) == Done(t) /\ task[t].result.status = "ok"
Failed(t, class) ==
    /\ Done(t)
    /\ task[t].result.status = "error"
    /\ ErrorClass(task[t].result.error) = class
\* The invocation is over and its arguments were accepted by the tool's schema.
HandlerRan(t) == Done(t) /\ SchemaAccepts(task[t].tool, task[t].args)
ResultText(t) == task[t].result.content[1].text
\* The invocation received a 2xx response that parsed; its data.
GotData(t) ==
    /\ task[t].log # <<>>
    /\ task[t].log[Len(task[t].log)].resp.kind = "json"
LastData(t) == task[t].log[Len(task[t].log)].resp.data
Absent(v) == v.t = "undef"
Missing(v) == v.t = "undef" \/ v = Empty
IsPortfolio(t) == task[t].tool = "calculatePortfolioValue"
HoldingsList(t) == task[t].args.holdings.s

\* A logged response that carries a price.
HasPrice(e) ==
    /\ e.resp.kind = "json"
    /\ e.resp.data.quote.t = "obj"
    /\ ~Falsy(Fields(e.resp.data.quote).price)
\* The responses with a price that invocation t received, in order.
Priced(t) == SelectSeq(task[t].log, HasPrice)
\* Price times shares of the holding that a priced response answers, unrounded.
ValueOf(t, e) ==
    Times(ParseFloat(Fields(e.resp.data.quote).price), HoldingsList(t)[e.idx].shares)
RECURSIVE SumValues(_, _)
SumValues(t, es) ==
    IF es = <<>> THEN Num(0)
    ELSE Plus(SumValues(t, SubSeq(es, 1, Len(es) - 1)), ValueOf(t, es[Len(es)]))
RECURSIVE SumRounded(_, _)
SumRounded(t, es) ==
    IF es = <<>> THEN Num(0)
    ELSE Plus(SumRounded(t, SubSeq(es, 1, Len(es) - 1)), Rounded2(ValueOf(t, es[Len(es)])))

(* ------------------------------------------------------------------ *)
(* C1                                                                  *)
(* ------------------------------------------------------------------ *)

\* C1 as stated: for each of the seven tools and every argument set its schema
\* accepts, an invocation made while the API key is unset or empty ends in a
\* MissingCredential failure and issues no HTTP request.
C1_MissingKeyAlwaysMissingCredential ==
    \A t \in Tasks :
        Falsy(apiKey) =>
            /\ task[t].gets = <<>>
            /\ HandlerRan(t) => Failed(t, "MissingCredential")

\* The arguments that convertCurrency's own checks reject before the key is read.
ConversionArgsRejected(t) ==
    /\ task[t].tool = "convertCurrency"
    /\ \/ task[t].args.amount = Whole(0)
       \/ task[t].args.from_currency = Empty
       \/ task[t].args.to_currency = Empty

\* C1 (amended): with the API key unset or empty, an invocation with arguments its
\* schema accepts issues no HTTP request and ends in a failure, of class
\* MissingCredential, except that convertCurrency called with amount 0 or an
\* empty currency code fails with InvalidInput.
C1_MissingKeyFailsBeforeAnyRequest ==
    \A t \in Tasks :
        Falsy(apiKey) =>
            /\ task[t].gets = <<>>
            /\ Pending(t) = {}
            /\ HandlerRan(t) =>
                  IF ConversionArgsRejected(t)
                  THEN Failed(t, "InvalidInput")
                  ELSE Failed(t, "MissingCredential")

\* Without a key, a portfolio call with holdings fails on the missing credential.
C1_Witness ==
    \E t \in Tasks :
        /\ Falsy(apiKey)
        /\ IsPortfolio(t) /\ HandlerRan(t)
        /\ HoldingsList(t) # <<>>
        /\ Failed(t, "MissingCredential")
        /\ task[t].gets = <<>>

(* ------------------------------------------------------------------ *)
(* C2                                                                  *)
(* ------------------------------------------------------------------ *)

\* C2: in calculatePortfolioValue a holding with a missing symbol or shares, a
\* failed fetch (non-2xx status or network failure) or a response without a price
\* never aborts the invocation: for every non-empty holdings list the invocation
\* ends in a successful result.
C2_SkippedHoldingsNeverAbort ==
    \A t \in Tasks :
        ( /\ IsPortfolio(t)
          /\ HandlerRan(t)
          /\ ~Falsy(apiKey)
          /\ HoldingsList(t) # <<>>
          /\ \A k \in 1..Len(task[t].log) : task[t].log[k].resp.kind # "badjson" )
        => Succeeded(t)

(* ------------------------------------------------------------------ *)
(* C3                                                                  *)
(* ------------------------------------------------------------------ *)

\* C3: the detail lines and the total of calculatePortfolioValue cover the same
\* holdings: there is one line, in order, for each holding whose response carried
\* a price, none for a skipped holding, and the total is the sum of the values of
\* the holdings that have a line.
C3_LinesAndTotalCoverSameHoldings ==
    \A t \in Tasks :
        (IsPortfolio(t) /\ SchemaAccepts(task[t].tool, task[t].args)) =>
            LET priced == Priced(t)
                details == task[t].details
            IN  /\ Len(details) = Len(priced)
                /\ \A k \in 1..Len(priced) :
                      /\ details[k].symbol =
                            ToUpperCase(HoldingsList(t)[priced[k].idx].symbol)
                      /\ details[k].shares = HoldingsList(t)[priced[k].idx].shares
                      /\ details[k].value = ToFixed2(ValueOf(t, priced[k]))
                /\ task[t].totalValue = SumValues(t, priced)
                /\ Succeeded(t) =>
                      /\ ResultText(t).details = details
                      /\ ResultText(t).total = ToFixed2(SumValues(t, priced))

\* AAPL is priced and the second holding yields no price data: one line for AAPL
\* and a total equal to AAPL's value.
C3_Witness ==
    \E t \in Tasks :
        /\ IsPortfolio(t) /\ Succeeded(t)
        /\ HoldingsList(t) = <<Holding(aapl, Whole(3)), Holding(msft, Whole(1))>>
        /\ task[t].log = <<[idx |-> 1, resp |-> Quote(Price1234)],
                           [idx |-> 2, resp |-> NoQuote]>>
        /\ Len(ResultText(t).details) = 1
        /\ ResultText(t).details[1].symbol = Str(<<"A", "A", "P", "L">>)
        /\ ResultText(t).total = ResultText(t).details[1].value

(* ------------------------------------------------------------------ *)
(* C4                                                                  *)
(* ------------------------------------------------------------------ *)

\* C4: convertCurrency fails with InvalidInput, without a network call, exactly
\* when amount is missing or not numeric or a currency code is missing; every
\* numeric amount, zero and negative included, given with both codes passes input
\* validation.
C4_InvalidInputExactly ==
    \A t \in Tasks :
        (Done(t) /\ task[t].tool = "convertCurrency") =>
            LET a == task[t].args
                invalid == \/ a.amount.t # "num"
                           \/ Missing(a.from_currency)
                           \/ Missing(a.to_currency)
            IN  /\ Failed(t, "InvalidInput") <=> invalid
                /\ invalid => task[t].gets = <<>>

(* ------------------------------------------------------------------ *)
(* C5                                                                  *)
(* ------------------------------------------------------------------ *)

StrictlyIncreasing(seq) == \A k \in 1..(Len(seq) - 1) : seq[k] < seq[k + 1]

\* C5: within one calculatePortfolioValue invocation the GETs are strictly
\* sequential: at most one per holding, in the order of the holdings list, each
\* issued only after every earlier holding's response was handled, so that the
\* invocation never has more than one request outstanding.
C5_FetchesSequential ==
    \A t \in Tasks :
        IsPortfolio(t) =>
            LET gets == task[t].gets
                log == task[t].log
            IN  /\ Cardinality(Pending(t)) <= 1
                /\ StrictlyIncreasing(gets)
                /\ \A k \in 1..Len(gets) : gets[k] \in 1..Len(HoldingsList(t))
                /\ Len(log) <= Len(gets)
                /\ \A k \in 1..Len(log) : log[k].idx = gets[k]
                /\ Cardinality(Pending(t)) = Len(gets) - Len(log)
                /\ \A r \in Pending(t) : r.idx = gets[Len(gets)]

\* The third holding's GET is outstanding, the first two are answered, and the
\* skipped holding in between got none.
C5_Witness ==
    \E t \in Tasks :
        /\ IsPortfolio(t)
        /\ task[t].pc = "fetch"
        /\ Len(HoldingsList(t)) = 3
        /\ HoldingSkipped(HoldingsList(t)[2])
        /\ task[t].gets = <<1, 3>>
        /\ Len(task[t].log) = 1
        /\ Cardinality(Pending(t)) = 1

(* ------------------------------------------------------------------ *)
(* C6                                                                  *)
(* ------------------------------------------------------------------ *)

\* Invocations with the same tool, arguments and responses have the same outcome.
OutcomeIsOwn ==
    \A t, u \in Tasks :
        ( /\ Done(t) /\ Done(u)
          /\ task[t].tool = task[u].tool
          /\ task[t].args = task[u].args
          /\ task[t].log = task[u].log )
        => task[t].result = task[u].result

\* A step belongs to one invocation: it leaves the key, every other invocation and
\* every other invocation's requests as they are.
StepIsOwn ==
    \E t \in Tasks :
        /\ apiKey' = apiKey
        /\ \A u \in Tasks \ {t} :
              /\ task'[u] = task[u]
              /\ {r \in net' : r.task = u} = {r \in net : r.task = u}

\* C6: invocations are independent under arbitrary interleaving: the outcome of
\* each is determined by its own arguments, the API key and the responses to its
\* own requests; no handler reads or writes state of another invocation, and a
\* failure of one changes neither the result nor the completion of another.
C6_InvocationsIndependent == []OutcomeIsOwn /\ [][StepIsOwn]_vars

\* One portfolio invocation has failed while another, with the same holdings, is
\* suspended at its second fetch.
C6_Witness ==
    \E t, u \in Tasks :
        /\ t # u
        /\ IsPortfolio(t) /\ IsPortfolio(u)
        /\ task[t].args = task[u].args
        /\ Done(t) /\ task[t].result.status = "error"
        /\ task[u].pc = "fetch" /\ Len(task[u].log) = 1

(* ------------------------------------------------------------------ *)
(* C7                                                                  *)
(* ------------------------------------------------------------------ *)

AbsentOrEmpty(list) == Absent(list) \/ list = Arr(<<>>)

\* The result is a success with exactly one text element, an informational one.
Informational(t) ==
    /\ Succeeded(t)
    /\ Len(task[t].result.content) = 1
    /\ task[t].result.content[1].type = "text"
    /\ ResultText(t).kind = "info"

\* C7: a 2xx response without data gives getStockNews and getDividendHistory a
\* non-error result with exactly one informational text element, and gives
\* getStockPrice, getCompanyOverview and convertCurrency a NoDataFound failure.
C7_NoDataPerHandler ==
    \A t \in Tasks :
        (Done(t) /\ GotData(t)) =>
            LET tool == task[t].tool
                data == LastData(t)
            IN  /\ (tool = "getStockNews" /\ AbsentOrEmpty(data.feed))
                      => Informational(t)
                /\ (tool = "getDividendHistory" /\ AbsentOrEmpty(data.historical))
                      => Informational(t)
                /\ (tool = "getStockPrice"
                      /\ (Absent(data.quote) \/ Absent(Fields(data.quote).price)))
                      => Failed(t, "NoDataFound")
                /\ (tool = "getCompanyOverview" /\ Absent(data.Name))
                      => Failed(t, "NoDataFound")
                /\ (tool = "convertCurrency" /\ Absent(data.rateInfo))
                      => Failed(t, "NoDataFound")

\* getStockNews got a 2xx response with an empty feed and answered with text.
C7_Witness ==
    \E t \in Tasks :
        /\ task[t].tool = "getStockNews"
        /\ Done(t) /\ GotData(t)
        /\ LastData(t).feed = Arr(<<>>)
        /\ Informational(t)

(* ------------------------------------------------------------------ *)
(* C8                                                                  *)
(* ------------------------------------------------------------------ *)

\* C8: for every 2xx response whose Name is present, whatever its other fields,
\* getCompanyOverview returns a successful text result with Name, Sector, Industry
\* and the first 300 characters of Description followed by the ellipsis.
C8_OverviewWheneverNamePresent ==
    \A t \in Tasks :
        ( /\ task[t].tool = "getCompanyOverview"
          /\ Done(t) /\ GotData(t)
          /\ ~Missing(LastData(t).Name) )
        => /\ Succeeded(t)
           /\ ResultText(t).Name = LastData(t).Name
           /\ ResultText(t).Sector = LastData(t).Sector
           /\ ResultText(t).Industry = LastData(t).Industry
           /\ LET d == LastData(t).Description.s
              IN  ResultText(t).Description =
                    [k \in 1..(Min(300, Len(d)) + 3) |->
                        IF k <= Min(300, Len(d)) THEN d[k] ELSE "."]

(* ------------------------------------------------------------------ *)
(* C9                                                                  *)
(* ------------------------------------------------------------------ *)

\* The provider's list of the tool's response, as the sequence of its entries.
ProviderList(t) ==
    CASE task[t].tool = "getStockNews" -> LastData(t).feed.s
      [] task[t].tool = "getDividendHistory" -> LastData(t).historical.s
      [] task[t].tool = "getIntraday" -> Fields(LastData(t).series)

\* The output item shows the provider's entry.
Shows(tool, item, entry) ==
    CASE tool = "getStockNews" -> item.title = entry.title /\ item.url = entry.url
      [] tool = "getDividendHistory" ->
            item.date = entry.date /\ item.dividend = entry.dividend
      [] tool = "getIntraday" ->
            item.time = entry.time /\ item.open = entry.open /\ item.close = entry.close

IsExample(t) ==
    /\ IsPortfolio(t) /\ Succeeded(t)
    /\ HoldingsList(t) = <<Holding(aapl, Whole(3))>>
    /\ task[t].log = <<[idx |-> 1, resp |-> Quote(Price1234)]>>

\* calculatePortfolioValue rounds only when it formats: each line shows its
\* holding's value rounded to 2 decimal places, the running total is the sum of
\* the unrounded values, and the displayed total is that sum rounded once.
RoundsOnlyWhenFormatting ==
    \A t \in Tasks :
        (IsPortfolio(t) /\ Succeeded(t)) =>
            LET priced == Priced(t) IN
            /\ Len(ResultText(t).details) = Len(priced)
            /\ \A k \in 1..Len(priced) :
                  ResultText(t).details[k].value = ToFixed2(ValueOf(t, priced[k]))
            /\ task[t].totalValue = SumValues(t, priced)
            /\ ResultText(t).total = ToFixed2(SumValues(t, priced))

\* C10 as stated: rounding only at formatting time, and price 123.4 with shares 3
\* gives a line containing 370.20 and contributes 370.4 unrounded to the total.
C10_ExampleContributes3704 ==
    /\ RoundsOnlyWhenFormatting
    /\ \A t \in Tasks :
          IsExample(t) =>
              /\ ResultText(t).details[1].value = <<"3", "7", "0", ".", "2", "0">>
              /\ task[t].totalValue = Num(370400)

\* C10 (amended): rounding only at formatting time, and price 123.4 with shares 3
\* gives a line containing 370.20 and contributes 370.2, the product, unrounded
\* to the total.
C10_RoundsOnceAtDisplay ==
    /\ RoundsOnlyWhenFormatting
    /\ \A t \in Tasks :
          IsExample(t) =>
              /\ ResultText(t).details[1].value = <<"3", "7", "0", ".", "2", "0">>
              /\ task[t].totalValue = Num(370200)

\* Two holdings worth 1.004 each: the lines show 1.00 and 1.00, the total 2.01,
\* the rounding of 2.008 and not the sum of the rounded lines.
C10_Witness ==
    \E t \in Tasks :
        /\ IsPortfolio(t) /\ Succeeded(t)
        /\ Len(ResultText(t).details) = 2
        /\ \A k \in 1..2 : ResultText(t).details[k].value = <<"1", ".", "0", "0">>
        /\ task[t].totalValue = Num(2008)
        /\ ResultText(t).total = <<"2", ".", "0", "1">>
        /\ ResultText(t).total # ToFixed2(SumRounded(t, Priced(t)))

====
